---- MODULE Spec2Model ----
(***************************************************************************)
(* Heightmap compute pipeline of heightmap-generator-v1.                   *)
(*                                                                         *)
(* These specifications share this module:                                 *)
(*   SpecDispatch  the 2D dispatch of a kernel over a width x height grid  *)
(*   SpecKernel    the per-pixel arithmetic of the two WGSL kernels        *)
(*   SpecDriver    runHeightmapCompute / runRefineCompute / initWebGPU and *)
(*                 the handlers that call them                             *)
(*   SpecPass      the threads of one pass over a small field, in any      *)
(*                 order                                                   *)
(*   SpecProbe     host functions (export, extract) and single kernel      *)
(*                 steps (contrast, sampling) applied to drawn arguments   *)
(*   SpecScene     the refinement kernel on a 64 x 64 field with one       *)
(*                 painted pixel                                           *)
(*   SpecStages    the arrays the stages of the host hand to each other    *)
(*   SpecApp       the handlers of App and the buttons of Toolbar;         *)
(*                 SpecAppFair adds that every awaited call settles        *)
(*   SpecCanvas    the mouse handlers of DrawingCanvas                     *)
(* Variables that a specification does not use keep their initial value.   *)
(***************************************************************************)
EXTENDS Integers, Sequences, FiniteSets, TLC

VARIABLES
  \* ---- dispatch ----
  kernelId,        \* which kernel is dispatched: "synthesis" | "refine"
  params,         \* uniform block [width, height]
  grid,           \* <<workgroupsX, workgroupsY>> passed to dispatchWorkgroups, <<0,0>> before
  wgDone,         \* workgroups that have run
  heightmapOut,   \* write log of the output buffer: records [gx, gy, idx]
  \* ---- kernel arithmetic ----
  kfield,         \* the input field [w, h, cols]: sample (x, y) is cols[y * w + x + 1]
  synthRes,       \* what the last synthesis thread computed and wrote
  refineRes,      \* what the last refinement thread computed and wrote
  \* ---- driver ----
  hasGpu,         \* navigator.gpu is present
  cache,          \* module-level gpuDevice / bindGroupLayout / pipeline of kernelId
  calls,          \* the invocations of the run function of kernelId, by call id
  lost,           \* devices whose lost promise has resolved
  hist,           \* history: how often each initialization step ran, overlap, failures
  \* ---- host functions and single kernel steps ----
  probe           \* one application of a function: [op, arg, done, out]

dispatchVars == <<kernelId, params, grid, wgDone, heightmapOut>>
kernelVars == <<kfield, synthRes, refineRes>>
driverVars == <<hasGpu, cache, calls, lost, hist>>

vars == <<kernelId, params, grid, wgDone, heightmapOut, kfield, synthRes, refineRes,
          hasGpu, cache, calls, lost, hist, probe>>

\* no function is being applied
ProbeIdle ==
  probe = [op |-> "none", arg |-> [n |-> 0], done |-> FALSE, out |-> [status |-> "none"]]

Kernels == {"synthesis", "refine"}

(***************************************************************************)
(* Dispatch: grid computation on the host, entry guard of the kernels      *)
(***************************************************************************)

\* largest canvas side of the dispatch model
MaxDim == 17

\* const wgSize = 16 / @workgroup_size(16, 16)
wgSize == 16

Dims == 1..MaxDim

\* a variant that rounds down instead
WorkgroupsFloor(n) == n \div wgSize

\* Math.ceil(n / wgSize) for positive integers
Workgroups(n) == (n + wgSize - 1) \div wgSize

\* a variant of the entry without the bounds guard
SynthMainNoGuard(gx, gy, w, h) == {gy * w + gx}

\* The entry of the synthesis kernel: the set of output indices thread (gx, gy) writes
SynthMainWrites(gx, gy, w, h) ==
  IF gx >= w \/ gy >= h THEN {} ELSE {gy * w + gx}

\* The entry of the refinement kernel (same guard, on i32 coordinates)
RefineMainWrites(gx, gy, w, h) ==
  IF gx >= w \/ gy >= h THEN {} ELSE {gy * w + gx}

MainWrites(k, gx, gy, w, h) ==
  IF k = "synthesis" THEN SynthMainWrites(gx, gy, w, h)
                     ELSE RefineMainWrites(gx, gy, w, h)

\* global invocation ids of workgroup (wx, wy)
WorkgroupThreads(wx, wy) ==
  {<<wx * wgSize + lx, wy * wgSize + ly>> : lx \in 0..(wgSize - 1), ly \in 0..(wgSize - 1)}

\* largest number of invocations of a run function
MaxCalls == 3
MaxLost == 1
MaxOverlap == 2

Calls == 1..MaxCalls

NoCall ==
  [pc |-> "idle", device |-> 0, layout |-> 0, pipeline |-> 0,
   uniform |-> "none", input |-> "none", output |-> "none", staging |-> "none",
   startedFull |-> FALSE, ranInit |-> FALSE,
   signal |-> FALSE, copied |-> FALSE, mapped |-> FALSE, hostRead |-> FALSE,
   handed |-> FALSE, error |-> ""]

DriverIdle ==
  /\ hasGpu = TRUE
  /\ cache = [device |-> 0, layout |-> 0, pipeline |-> 0]
  /\ calls = [c \in Calls |-> NoCall]
  /\ lost = {}
  /\ hist = [inits |-> "never", layouts |-> "never", pipelines |-> "never",
             overlapped |-> FALSE, initFailed |-> FALSE]

KernelIdle ==
  /\ kfield = [w |-> 1, h |-> 1, cols |-> <<0>>]
  /\ synthRes = [ran |-> FALSE]
  /\ refineRes = [ran |-> FALSE]

DispatchInit ==
  /\ KernelIdle
  /\ ProbeIdle
  /\ DriverIdle
  /\ kernelId \in Kernels
  /\ params \in [width : Dims, height : Dims]
  /\ grid = <<0, 0>>
  /\ wgDone = {}
  /\ heightmapOut = {}

\* pass.dispatchWorkgroups(workgroupsX, workgroupsY)
DispatchWorkgroups ==
  /\ grid = <<0, 0>>
  /\ grid' = <<Workgroups(params.width), Workgroups(params.height)>>
  /\ UNCHANGED <<kernelId, params, wgDone, heightmapOut>>
  /\ UNCHANGED kernelVars
  /\ UNCHANGED <<driverVars, probe>>

\* one workgroup runs its 16 x 16 threads; workgroups run in any order
ExecWorkgroup ==
  \E wx \in 0..(grid[1] - 1), wy \in 0..(grid[2] - 1) :
    /\ <<wx, wy>> \notin wgDone
    /\ wgDone' = wgDone \cup {<<wx, wy>>}
    /\ heightmapOut' = heightmapOut \cup
         UNION { {[gx |-> t[1], gy |-> t[2], idx |-> i] :
                    i \in MainWrites(kernelId, t[1], t[2], params.width, params.height)} :
                 t \in WorkgroupThreads(wx, wy) }
    /\ UNCHANGED <<kernelId, params, grid>>
    /\ UNCHANGED kernelVars
    /\ UNCHANGED <<driverVars, probe>>

DispatchNext == DispatchWorkgroups \/ ExecWorkgroup

SpecDispatch == DispatchInit /\ [][DispatchNext]_vars

DispatchFinished ==
  /\ grid # <<0, 0>>
  /\ wgDone = (0..(grid[1] - 1)) \X (0..(grid[2] - 1))

WrittenIdx == {e.idx : e \in heightmapOut}

\* C1: the grid is ceil(width/16) x ceil(height/16) (256 x 256 for 4096 x 4096);
\* no index is written twice, no thread outside width x height writes, and once
\* every workgroup has run the indices written are exactly 0..width*height-1.
C1_DispatchCoverage ==
  /\ Workgroups(4096) = 256
  /\ grid # <<0, 0>> =>
       /\ (grid[1] - 1) * wgSize < params.width /\ params.width <= grid[1] * wgSize
       /\ (grid[2] - 1) * wgSize < params.height /\ params.height <= grid[2] * wgSize
  /\ Cardinality(WrittenIdx) = Cardinality(heightmapOut)
  /\ \A e \in heightmapOut : e.gx < params.width /\ e.gy < params.height
  /\ DispatchFinished => WrittenIdx = 0..(params.width * params.height - 1)

\* a finished dispatch over several workgroups whose last ones are partly outside
C1_Witness ==
  /\ DispatchFinished
  /\ grid = <<2, 2>>
  /\ params.width = wgSize + 1
  /\ Cardinality(heightmapOut) = params.width * params.height

(***************************************************************************)
(* Kernel arithmetic.  An f32 is an integer number of thousandths; NaN is  *)
(* a value of its own that every operation propagates.                     *)
(***************************************************************************)

\* the f32 value 1.0
One == 1000

NaN == 0 - One * One

Clamp(x, lo, hi) == IF x < lo THEN lo ELSE IF x > hi THEN hi ELSE x

Abs(x) == IF x < 0 THEN 0 - x ELSE x

FMul(a, b) == IF a = NaN \/ b = NaN THEN NaN ELSE (a * b) \div One

FAdd(a, b) == IF a = NaN \/ b = NaN THEN NaN ELSE a + b

\* n / d rounded to the nearest integer, d > 0
RoundDiv(n, d) == (2 * n + d) \div (2 * d)

\* WGSL smoothstep(low, high, x): t * t * (3 - 2 t), t = clamp((x - low) / (high - low), 0, 1)
Smoothstep(low, high, x) ==
  IF x = NaN THEN NaN
  ELSE LET num == IF high > low THEN (x - low) * One ELSE (low - x) * One
           den == IF high > low THEN high - low ELSE low - high
           t == Clamp(num \div den, 0, One)
       IN (((t * t) \div One) * (3 * One - 2 * t)) \div One

\* WGSL mix(a, b, t) = a * (1 - t) + b * t
Mix(a, b, t) ==
  IF a = NaN \/ b = NaN \/ t = NaN THEN NaN
  ELSE (a * (One - t) + b * t) \div One

\* x^e for x >= 0 read off a table of the curve at steps of 0.05, linear in between
PowStep == One \div 20

PowLookup(tbl, x) ==
  LET k == x \div PowStep
      r == x % PowStep
  IN IF k + 1 >= Len(tbl) THEN tbl[Len(tbl)]
     ELSE tbl[k + 1] + ((tbl[k + 2] - tbl[k + 1]) * r) \div PowStep

Pow06Table ==
  <<0, 166, 251, 320, 381, 435, 486, 533, 577, 619, 660, 699, 736, 772, 807, 841,
    875, 907, 939, 970, 1000, 1030, 1059, 1087, 1116, 1143, 1170, 1197, 1224, 1250,
    1275, 1301, 1326, 1350, 1375, 1399, 1423, 1446, 1470, 1493, 1516, 1538, 1561,
    1583, 1605, 1627, 1648, 1670, 1691, 1712, 1733>>

Pow13Table ==
  <<0, 20, 50, 85, 123, 165, 209, 255, 304, 354, 406, 460, 515, 571, 629, 688, 748,
    810, 872, 935, 1000>>

Pow25Table ==
  <<0, 1, 3, 9, 18, 31, 49, 72, 101, 136, 177, 224, 279, 341, 410, 487, 572, 666,
    768, 880, 1000>>

\* WGSL pow(x, e): the possible results.  A negative base with a fractional
\* exponent is outside the domain of pow: the result is NaN or an indeterminate value.
Pow(tbl, x) ==
  IF x = NaN THEN {NaN}
  ELSE IF x < 0 THEN {NaN, 0, One}
  ELSE {PowLookup(tbl, x)}

\* heightmapOut[idx] = clamp(v, 0.0, 1.0): the values the store can leave in the
\* buffer.  clamp of a NaN is indeterminate.
StoreClamped(v) ==
  IF v = NaN THEN {NaN, 0, One} ELSE {Clamp(v, 0, One)}

(***************************************************************************)
(* Noise.  hash2 and valueNoise are functions of position with values in   *)
(* [0, 1); the model takes the valueNoise sample of each octave as an      *)
(* input and computes the fractal sums from them as the shader does.       *)
(***************************************************************************)

\* valueNoise samples, one per octave, of the noise patterns explored
NoisePatterns ==
  { <<0, 0, 0, 0, 0, 0, 0>>,
    <<500, 500, 500, 500, 500, 500, 500>>,
    <<999, 999, 999, 999, 999, 999, 999>> }

\* fbm(pos, octaves): value += amp * valueNoise(p * freq), amp halves from 0.5
RECURSIVE fbmFrom(_, _, _, _)
fbmFrom(ns, i, octaves, amp) ==
  IF i > octaves THEN 0
  ELSE FMul(amp, ns[i]) + fbmFrom(ns, i + 1, octaves, amp \div 2)

fbm(ns, octaves) == fbmFrom(ns, 1, octaves, 500)

\* continentalNoise(p) = pow(fbm(p * 1.5, 3), 2.5)
continentalNoise(ns) == PowLookup(Pow25Table, fbm(ns, 3))

\* detailNoise(p) = fbm(p * 6.0, 4)
detailNoise(ns) == fbm(ns, 4)

\* ridgedNoise(pos, octaves): fold, square, weight by the previous octave
RECURSIVE ridgedFrom(_, _, _, _, _)
ridgedFrom(ns, i, octaves, amp, weight) ==
  IF i > octaves THEN 0
  ELSE LET folded == One - Abs(ns[i] * 2 - One)
           n == FMul(FMul(folded, folded), weight)
       IN FMul(n, amp)
            + ridgedFrom(ns, i + 1, octaves, (amp * 45) \div 100,
                         Clamp((n * 12) \div 10, 0, One))

ridgedNoise(ns, octaves) == ridgedFrom(ns, 1, octaves, 600, One)

\* fbmDisplace: five octaves of (valueNoise * 2 - 1), amplitude 1 halving
RECURSIVE fbmDisplaceFrom(_, _, _)
fbmDisplaceFrom(ns, i, amp) ==
  IF i > 5 THEN 0
  ELSE FMul(amp, ns[i] * 2 - One) + fbmDisplaceFrom(ns, i + 1, amp \div 2)

fbmDisplace(ns) == fbmDisplaceFrom(ns, 1, One)

(***************************************************************************)
(* Synthesis kernel, per pixel                                             *)
(***************************************************************************)

\* heightmapIn[y * w + x] of the field f
InAt(f, i) == f.cols[i + 1]

\* the blend weights of the painted value
hillWeight(painted) == FMul(Smoothstep(50, 300, painted), Smoothstep(900, 550, painted))

\* a variant with the edges of the ramp swapped, as in the second factor of hillWeight
mtnWeightReversed(painted) == Smoothstep(800, 400, painted)

\* let mtnWeight = smoothstep(0.40, 0.80, painted)
mtnWeight(painted) == Smoothstep(400, 800, painted)

\* a variant that adds the detail layer everywhere
detailWeightAlways(painted) == 60

\* let detailWeight = smoothstep(0.05, 0.25, painted) * 0.06
detailWeight(painted) == FMul(Smoothstep(50, 250, painted), 60)

\* the mountain term of the blend
mtnTerm(painted, ridges) == FMul(mtnWeight(painted), FMul(ridges, painted))

\* main of the synthesis kernel for pixel (px, py): what it computes and the
\* values the final store can leave in heightmapOut[idx]
SynthMain(f, px, py, nsC, nsR, nsD) ==
  LET idx == py * f.w + px
      painted == InAt(f, idx)
      continental == continentalNoise(nsC)
      ridges == ridgedNoise(nsR, 7)
      detail == detailNoise(nsD)
      hillHeight == FMul(continental, 500)
      height == FMul(hillWeight(painted), hillHeight)
                  + mtnTerm(painted, ridges)
                  + FMul(detailWeight(painted), detail)
      curved == PowLookup(Pow13Table, Clamp(height, 0, One))
  IN [ran |-> TRUE, idx |-> idx, painted |-> painted,
      continental |-> continental, ridges |-> ridges, detail |-> detail,
      height |-> height, outs |-> StoreClamped(curved)]

(***************************************************************************)
(* Refinement kernel, per pixel                                            *)
(***************************************************************************)

\* exp(-d2 / 8) for d2 = 0..18
ExpWeight(d2) ==
  <<1000, 882, 779, 687, 607, 535, 472, 417, 368, 325, 287, 253, 223, 197, 174, 153,
    135, 119, 105>>[d2 + 1]

\* a variant that reads the requested coordinate as it is
sampleCoordUnclamped(f, x, y) == <<x, y>>

\* the coordinate sampleClamped(x, y) reads
sampleCoord(f, x, y) == <<Clamp(x, 0, f.w - 1), Clamp(y, 0, f.h - 1)>>

\* the linear index sampleClamped(x, y) reads: u32(cy) * params.width + u32(cx)
sampleIndex(f, x, y) ==
  LET c == sampleCoord(f, x, y) IN c[2] * f.w + c[1]

sampleClamped(f, x, y) == InAt(f, sampleIndex(f, x, y))

\* the inner loop of gaussianBlur: the taps dx..3 of row dy
RECURSIVE blurRow(_, _, _, _, _)
blurRow(f, px, py, dy, dx) ==
  IF dx > 3 THEN [total |-> 0, weight |-> 0]
  ELSE LET w == ExpWeight(dx * dx + dy * dy)
           rest == blurRow(f, px, py, dy, dx + 1)
       IN [total |-> rest.total + sampleClamped(f, px + dx, py + dy) * w,
           weight |-> rest.weight + w]

\* the outer loop of gaussianBlur: the rows dy..3
RECURSIVE blurTaps(_, _, _, _)
blurTaps(f, px, py, dy) ==
  IF dy > 3 THEN [total |-> 0, weight |-> 0]
  ELSE LET row == blurRow(f, px, py, dy, 0 - 3)
           rest == blurTaps(f, px, py, dy + 1)
       IN [total |-> rest.total + row.total, weight |-> rest.weight + row.weight]

gaussianBlur(f, px, py) ==
  LET t == blurTaps(f, px, py, 0 - 3) IN t.total \div t.weight

\* floor of the square root, by bisection on lo..hi
RECURSIVE sqrtBetween(_, _, _)
sqrtBetween(n, lo, hi) ==
  IF lo = hi THEN lo
  ELSE LET mid == (lo + hi + 1) \div 2
       IN IF mid * mid <= n THEN sqrtBetween(n, mid, hi) ELSE sqrtBetween(n, lo, mid - 1)

ISqrt(n) == sqrtBetween(n, 0, 2 * One)

gradientMagnitude(f, px, py) ==
  LET gx == sampleClamped(f, px + 1, py) - sampleClamped(f, px - 1, py)
      gy == sampleClamped(f, px, py + 1) - sampleClamped(f, px, py - 1)
  IN ISqrt(gx * gx + gy * gy)

\* largest pixel displacement at the hardest edge, before the noise factor
maxShift == 24

\* the pixel shift round(fbmDisplace * maxShift * edge) of one axis
pixelShift(noise, edge) == RoundDiv(noise * maxShift * edge, One * One)

\* <<i32(round(nx)), i32(round(ny))>> of perturbedSample
perturbedShift(f, px, py, nsX, nsY) ==
  LET edge == gradientMagnitude(f, px, py)
  IN <<pixelShift(fbmDisplace(nsX), edge), pixelShift(fbmDisplace(nsY), edge)>>

perturbedSample(f, px, py, nsX, nsY) ==
  LET shift == perturbedShift(f, px, py, nsX, nsY)
  IN sampleClamped(f, px + shift[1], py + shift[2])

\* band of the coastline contrast, in thousandths
coastLow == 30
coastHigh == 120

\* a variant that passes every value through
coastlineContrastOff(v) == v

coastlineContrast(v) == FMul(v, Smoothstep(coastLow, coastHigh, v))

\* contrastCurve(v, 8.0), the sigmoid of the refine shader in gpu/refineCompute.ts,
\* for v = -0.5 .. 1.5 at steps of 0.05
ContrastCurveTable ==
  <<-18, -18, -18, -18, -17, -16, -15, -13, -10, -6, 0, 9, 22, 41, 68, 105, 156, 221,
    303, 398, 500, 602, 697, 779, 844, 895, 932, 959, 978, 991, 1000, 1006, 1010,
    1013, 1015, 1016, 1017, 1018, 1018, 1018, 1018>>

contrastCurve(v) ==
  IF v = NaN THEN NaN
  ELSE PowLookup(ContrastCurveTable, Clamp(v + One \div 2, 0, 2 * One))

\* the two refine shaders of the repository, by the file that holds them
RefineShaders == {"part_000", "gpu/refineCompute.ts"}

\* step 4 of main: the contrast step applied to the sharpened value
contrastStep(shader, v) ==
  IF shader = "part_000" THEN coastlineContrast(v) ELSE contrastCurve(v)

\* sharpenMountains(original, blurred): the possible results, with the
\* unsharp-masked value they come from
sharpenedOf(original, blurred) ==
  original + FMul(original - blurred, (Smoothstep(200, 550, original) * 3) \div 2)

sharpenMountains(original, blurred) ==
  LET sharpened == sharpenedOf(original, blurred)
      mtnBoost == Smoothstep(400, 800, sharpened)
  IN { Mix(sharpened, p, (mtnBoost * 4) \div 10) : p \in Pow(Pow06Table, sharpened) }

\* a variant whose blend starts at gradient 0
edgeMixFromZero(edge) == Smoothstep(0, 150, edge)

\* edgeMix of main: smoothstep(0.02, 0.15, edge)
edgeMixOf(edge) == Smoothstep(20, 150, edge)

\* steps 1 and 2 of main of the refinement kernel for pixel (px, py)
RefineSmoothed(f, px, py, nsX, nsY) ==
  LET blurred == gaussianBlur(f, px, py)
      edge == gradientMagnitude(f, px, py)
      perturbed == perturbedSample(f, px, py, nsX, nsY)
      edgeMix == edgeMixOf(edge)
  IN [blurred |-> blurred, edge |-> edge, perturbed |-> perturbed,
      shift |-> perturbedShift(f, px, py, nsX, nsY),
      smoothed |-> Mix(blurred, perturbed, (edgeMix * 7) \div 10)]

\* a variant of main in the order of the header comment of the shader: the
\* coastline contrast as step 3, before the mountain sharpening
RefineMainContrastFirst(f, px, py, nsX, nsY) ==
  LET s == RefineSmoothed(f, px, py, nsX, nsY)
      contrasted == coastlineContrast(s.smoothed)
      rec(b, o) ==
        [ran |-> TRUE, idx |-> py * f.w + px, original |-> InAt(f, py * f.w + px),
         blurred |-> s.blurred, edge |-> s.edge, perturbed |-> s.perturbed,
         shift |-> s.shift,
         smoothed |-> s.smoothed, sharpened |-> sharpenedOf(contrasted, s.blurred),
         boosted |-> b, refined |-> b, out |-> o]
  IN UNION { { rec(b, o) : o \in StoreClamped(b) } :
             b \in sharpenMountains(contrasted, s.blurred) }

\* the results main of the refinement kernel can leave for pixel (px, py)
RefineMain(f, px, py, nsX, nsY) ==
  LET s == RefineSmoothed(f, px, py, nsX, nsY)
      rec(b, o) ==
        [ran |-> TRUE, idx |-> py * f.w + px, original |-> InAt(f, py * f.w + px),
         blurred |-> s.blurred, edge |-> s.edge, perturbed |-> s.perturbed,
         shift |-> s.shift,
         smoothed |-> s.smoothed, sharpened |-> sharpenedOf(s.smoothed, s.blurred),
         boosted |-> b, refined |-> coastlineContrast(b), out |-> o]
  IN UNION { { rec(b, o) : o \in StoreClamped(coastlineContrast(b)) } :
             b \in sharpenMountains(s.smoothed, s.blurred) }

(***************************************************************************)
(* SpecKernel: a field is drawn, then threads of either kernel run on it   *)
(***************************************************************************)

\* a field of the kernel model is one row of samples, at most MaxKW wide
MaxKW == 3

\* sample values of the fields explored (thousandths)
FieldVals == {0, 10, 300, 850, 1000}

DispatchIdle ==
  /\ kernelId = "synthesis"
  /\ params = [width |-> 1, height |-> 1]
  /\ grid = <<0, 0>>
  /\ wgDone = {}
  /\ heightmapOut = {}

KernelInit ==
  /\ DispatchIdle
  /\ ProbeIdle
  /\ DriverIdle
  /\ \E w \in 1..MaxKW :
       kfield \in [w : {w}, h : {1}, cols : [1..w -> FieldVals]]
  /\ synthRes = [ran |-> FALSE]
  /\ refineRes = [ran |-> FALSE]

\* one thread of the synthesis kernel inside the grid
SynthThread ==
  /\ ~synthRes.ran /\ ~refineRes.ran
  /\ \E px \in 0..(kfield.w - 1), py \in 0..(kfield.h - 1) :
    \E nsC \in NoisePatterns, nsR \in NoisePatterns, nsD \in NoisePatterns :
      LET r == SynthMain(kfield, px, py, nsC, nsR, nsD)
      IN \E o \in r.outs :
           /\ synthRes' = [ran |-> TRUE, idx |-> r.idx, painted |-> r.painted,
                           continental |-> r.continental, ridges |-> r.ridges,
                           detail |-> r.detail, height |-> r.height, out |-> o]
           /\ UNCHANGED <<kfield, refineRes>>
           /\ UNCHANGED dispatchVars
           /\ UNCHANGED <<driverVars, probe>>

\* one thread of the refinement kernel inside the grid
RefineThread ==
  /\ ~synthRes.ran /\ ~refineRes.ran
  /\ \E px \in 0..(kfield.w - 1), py \in 0..(kfield.h - 1) :
    \E nsX \in NoisePatterns, nsY \in NoisePatterns :
      \E r \in RefineMain(kfield, px, py, nsX, nsY) :
        /\ refineRes' = r
        /\ UNCHANGED <<kfield, synthRes>>
        /\ UNCHANGED dispatchVars
        /\ UNCHANGED <<driverVars, probe>>

KernelNext == SynthThread \/ RefineThread

SpecKernel == KernelInit /\ [][KernelNext]_vars

InUnit(v) == v # NaN /\ 0 <= v /\ v <= One

\* C2: every sample either kernel writes lies in [0.0, 1.0]
C2_OutputInUnit ==
  /\ synthRes.ran => InUnit(synthRes.out)
  /\ refineRes.ran => InUnit(refineRes.out)

\* C3: a pixel painted below 0.02 gets a synthesis height below 0.01, whatever the noise
C3_FlatGround ==
  (synthRes.ran /\ synthRes.painted < 20) => (InUnit(synthRes.out) /\ synthRes.out < 10)

\* a thread ran on a pixel painted below 0.02 where ridge and detail noise are not zero
C3_Witness ==
  /\ synthRes.ran
  /\ synthRes.painted < 20
  /\ synthRes.painted > 0
  /\ synthRes.ridges > 0
  /\ synthRes.detail > 0

(***************************************************************************)
(* SpecPass: the threads of one pass over a field run one at a time, in    *)
(* any order; heightmapOut is the sequence of their writes [gx, gy, idx,   *)
(* val]                                                                    *)
(***************************************************************************)

\* hash2 and valueNoise are functions of position alone: the valueNoise samples
\* of the lookup number salt of the thread of pixel i
noiseAt(i, salt) ==
  << <<0, 0, 0, 0, 0, 0, 0>>,
     <<500, 500, 500, 500, 500, 500, 500>>,
     <<999, 999, 999, 999, 999, 999, 999>> >>[((i + salt) % 3) + 1]

\* the last value written to index i, or none when it was not written
Written(log, i, none) ==
  LET ks == {k \in 1..Len(log) : log[k].idx = i}
  IN IF ks = {} THEN none ELSE log[CHOOSE k \in ks : \A j \in ks : j <= k].val

\* a variant in which the kernel runs in place: a thread reads what earlier threads
\* of the pass have stored
ThreadInputInPlace(f, log) ==
  [f EXCEPT !.cols = [x \in 1..f.w |-> Written(log, x - 1, f.cols[x])]]

\* heightmapIn as a thread sees it: binding 1, a read-only buffer of its own, so
\* the input field whatever the pass has stored in heightmapOut so far
ThreadInput(f, log) == f

\* the writes [idx, val] thread (gx, gy) of the kernel can make on the field f
ThreadWrites(kernel, f, gx, gy) ==
  LET i == gy * f.w + gx
  IN IF kernel = "synthesis"
     THEN LET r == SynthMain(f, gx, gy, noiseAt(i, 0), noiseAt(i, 1), noiseAt(i, 2))
          IN { [gx |-> gx, gy |-> gy, idx |-> r.idx, val |-> o] : o \in r.outs }
     ELSE { [gx |-> gx, gy |-> gy, idx |-> r.idx, val |-> r.out] :
              r \in RefineMain(f, gx, gy, noiseAt(i, 0), noiseAt(i, 1)) }

PassInit ==
  /\ ProbeIdle
  /\ DriverIdle
  /\ kernelId \in Kernels
  /\ \E w \in 1..MaxKW :
       /\ kfield \in [w : {w}, h : {1}, cols : [1..w -> FieldVals]]
       /\ params = [width |-> w, height |-> 1]
  /\ grid = <<1, 1>>
  /\ wgDone = {}
  /\ heightmapOut = <<>>
  /\ synthRes = [ran |-> FALSE]
  /\ refineRes = [ran |-> FALSE]

\* threads of the grid that have not run yet
PassPending ==
  {g \in (0..(params.width - 1)) \X (0..(params.height - 1)) :
     \A k \in 1..Len(heightmapOut) :
       <<heightmapOut[k].gx, heightmapOut[k].gy>> # g}

PassThread(kernel) ==
  /\ kernelId = kernel
  /\ \E g \in PassPending :
       \E wr \in ThreadWrites(kernel, ThreadInput(kfield, heightmapOut), g[1], g[2]) :
         heightmapOut' = Append(heightmapOut, wr)
  /\ UNCHANGED <<kernelId, params, grid, wgDone>>
  /\ UNCHANGED kernelVars
  /\ UNCHANGED <<driverVars, probe>>

\* one thread of the synthesis kernel runs to its store
SynthPassThread == PassThread("synthesis")

\* one thread of the refinement kernel runs to its store
RefinePassThread == PassThread("refine")

PassNext == SynthPassThread \/ RefinePassThread

SpecPass == PassInit /\ [][PassNext]_vars

(***************************************************************************)
(* SpecScene: the refinement kernel on a square field that is 0 but for    *)
(* one painted pixel; probe holds the painted pixel, the pixel of the      *)
(* thread and its noise                                                    *)
(***************************************************************************)

\* side of the field
SceneDim == 64

\* the field that is 1.0 at (sx, sy) and 0 elsewhere
SceneField(sx, sy) ==
  [w |-> SceneDim, h |-> SceneDim,
   cols |-> [i \in 1..(SceneDim * SceneDim) |->
               IF i - 1 = sy * SceneDim + sx THEN One ELSE 0]]

\* painted pixels explored: two opposite corners and the centre
SceneSources ==
  { <<0, 0>>, <<SceneDim \div 2, SceneDim \div 2>>, <<SceneDim - 1, SceneDim - 1>> }

SceneArgs ==
  { [sx |-> src[1], sy |-> src[2], px |-> q[1], py |-> q[2], nsX |-> nx, nsY |-> ny] :
      src \in SceneSources, q \in (0..(SceneDim - 1)) \X (0..(SceneDim - 1)),
      nx \in NoisePatterns, ny \in NoisePatterns }

SceneInit ==
  /\ DispatchIdle
  /\ KernelIdle
  /\ DriverIdle
  /\ probe \in { [op |-> "scene", arg |-> a, done |-> FALSE, out |-> [status |-> "none"]] :
                   a \in SceneArgs }

\* the thread of pixel (px, py) of the refinement kernel runs on the field
SceneThread ==
  /\ probe.op = "scene"
  /\ ~probe.done
  /\ \E r \in RefineMain(SceneField(probe.arg.sx, probe.arg.sy), probe.arg.px,
                          probe.arg.py, probe.arg.nsX, probe.arg.nsY) :
       probe' = [probe EXCEPT !.done = TRUE,
                              !.out = [status |-> "ok", blurred |-> r.blurred,
                                       edge |-> r.edge, refined |-> r.refined,
                                       val |-> r.out]]
  /\ UNCHANGED <<dispatchVars, kernelVars, driverVars>>

SceneNext == SceneThread

SpecScene == SceneInit /\ [][SceneNext]_vars

(***************************************************************************)
(* Host functions: downloadHeightmap16 (export) and extractHeightmap       *)
(***************************************************************************)

\* largest number of pixels of the fields handed to the host functions
MaxPixels == 4

\* the largest 16-bit sample
U16Max == 65535

\* the largest 8-bit channel value
U8Max == 255

\* heightData[i] for a 0-based i: past the end a typed array reads undefined,
\* which Math.max turns into NaN
ReadSample(data, i) == IF i < Len(data) THEN data[i + 1] ELSE NaN

\* a variant of the quantization that truncates instead of rounding
exportSampleTruncated(v) ==
  IF v = NaN THEN 0 ELSE (Clamp(v, 0, One) * U16Max) \div One

\* raw[i] = Math.round(Math.min(1, Math.max(0, v)) * 65535), stored in a
\* Uint16Array, which stores NaN as 0
exportSample(v) ==
  IF v = NaN THEN 0 ELSE RoundDiv(Clamp(v, 0, One) * U16Max, One)

\* a variant that writes the two bytes least significant first
exportBytesLittleEndian(raw) == <<raw % 256, raw \div 256>>

\* view.setUint16(i * 2, raw[i], false): the two bytes written at offset 2 * i
exportBytes(raw) == <<raw \div 256, raw % 256>>

\* the byte at 0-based offset b of the buffer of downloadHeightmap16
exportByteAt(data, b) == exportBytes(exportSample(ReadSample(data, b \div 2)))[(b % 2) + 1]

\* downloadHeightmap16(heightData, width, height): the buffer handed to
\* UPNG.encode.  Nothing in it compares heightData.length with width * height.
downloadHeightmap16(data, width, height) ==
  [status |-> "encoded",
   bytes |-> [b \in 1..(2 * width * height) |-> exportByteAt(data, b - 1)]]

\* a variant that reads the alpha byte of the pixel instead of its red byte
extractSampleAlpha(rgba, i) == RoundDiv(rgba[4 * i + 4] * One, U8Max)

\* heightmap[i] = rgba[i * 4] / 255 for a 0-based i
extractSample(rgba, i) == RoundDiv(rgba[4 * i + 1] * One, U8Max)

\* extractHeightmap(canvas): throws without a 2D context, else one sample per pixel
extractHeightmap(ctx, rgba, width, height) ==
  IF ~ctx THEN [status |-> "Cannot get 2D context from hidden canvas", data |-> <<>>]
  ELSE [status |-> "ok",
        data |-> [i \in 1..(width * height) |-> extractSample(rgba, i - 1)]]

\* size of the uniform buffer of both run functions
uniformSize == 16

\* Float32Array.BYTES_PER_ELEMENT
bytesPerSample == 4

\* heightmap.byteLength
byteLength(data) == Len(data) * bytesPerSample

\* a variant that takes the sample count for the byte size
readbackByteSizeInSamples(pixelCount) == pixelCount

\* readbackOutputBuffer: const byteSize = pixelCount * 4
readbackByteSize(pixelCount) == pixelCount * bytesPerSample

\* the buffers a run function (and, for the synthesis kernel, the readback that
\* follows it) creates for the canvas, and the length of the array read back
bufferSizes(kernel, ctx, rgba, width, height) ==
  LET heightmap == extractHeightmap(ctx, rgba, width, height).data
      pixelCount == Len(heightmap)
      byteSize == byteLength(heightmap)
      stagingSize == IF kernel = "synthesis" THEN readbackByteSize(pixelCount)
                     ELSE byteSize
  IN [status |-> "ok", uniformData |-> <<width, height>>, uniform |-> uniformSize,
      input |-> byteSize, output |-> byteSize, staging |-> stagingSize,
      result |-> stagingSize \div bytesPerSample]

(***************************************************************************)
(* Driver: initWebGPU, runHeightmapCompute, runRefineCompute and the tail  *)
(* of handleGenerate3D.  JavaScript runs each stretch of code between two  *)
(* awaits without interruption, so an action is one such stretch; a step   *)
(* that can throw is chosen by failAt.  The device acquired by call c is   *)
(* device c; a layout or pipeline is named by the device that created it.  *)
(***************************************************************************)

\* how often a step has run so far: never, once, or again after that
Again(n) == IF n = "never" THEN "once" ELSE "again"

InFlight(c) == calls[c].pc \notin {"idle", "done", "failed"}

\* all three handles are cached
CacheFull(cch) == cch.device # 0 /\ cch.layout # 0 /\ cch.pipeline # 0

\* variants of the cache check: one that looks at the device only, one that
\* never trusts the cache
NeedsInitDeviceOnly(cch) == cch.device = 0
NeedsInitAlways(cch) == TRUE

\* if (!gpuDevice || !computePipeline || !bindGroupLayout)
NeedsInit(cch) == cch.device = 0 \/ cch.pipeline = 0 \/ cch.layout = 0

\* the steps of the initialization block that can throw once the device is there
InitStages == {"createBindGroupLayout", "createShaderModule", "createComputePipeline", "none"}

\* a variant that stores the new device but compiles only what is not cached yet
CacheAfterInitKeepCompiled(cch, d, failAt) ==
  [device |-> d,
   layout |-> IF cch.layout # 0 THEN cch.layout ELSE d,
   pipeline |-> IF cch.pipeline # 0 THEN cch.pipeline
                ELSE IF failAt = "none" THEN d ELSE 0]

\* the cached handles after device d went through the initialization block up to failAt
CacheAfterInit(cch, d, failAt) ==
  CASE failAt = "createBindGroupLayout" -> [cch EXCEPT !.device = d]
    [] failAt \in {"createShaderModule", "createComputePipeline"} ->
         [cch EXCEPT !.device = d, !.layout = d]
    [] OTHER -> [device |-> d, layout |-> d, pipeline |-> d]

\* a call that has returned or thrown: its locals are gone, the buffers it created
\* and what was done with them remain
Ended(call, pc) ==
  [call EXCEPT !.pc = pc, !.device = 0, !.layout = 0, !.pipeline = 0,
               !.startedFull = FALSE, !.ranInit = FALSE]

Thrown(call) == Ended(call, "failed")

\* the steps between the cache check and the completion wait that can throw
SetupSteps == {"extractHeightmap", "createUniform", "createInput", "createOutput",
               "writeBuffer", "submit", "none"}

\* const device = gpuDevice ... device.queue.submit([encoder.finish()])
Dispatched(call, cch, failAt) ==
  LET base == [call EXCEPT !.device = cch.device]
  IN CASE failAt \in {"extractHeightmap", "createUniform"} ->
            Thrown(base)
       [] failAt = "createInput" ->
            Thrown([base EXCEPT !.uniform = "alive"])
       [] failAt = "createOutput" ->
            Thrown([base EXCEPT !.uniform = "alive", !.input = "alive"])
       [] failAt \in {"writeBuffer", "submit"} ->
            Thrown([base EXCEPT !.uniform = "alive", !.input = "alive",
                                !.output = "alive"])
       [] OTHER ->
            [base EXCEPT !.pc = "awaitDone", !.uniform = "alive", !.input = "alive",
                         !.output = "alive", !.layout = cch.layout,
                         !.pipeline = cch.pipeline]

\* a variant without the await: the code goes on whether or not the work is done
ResumesNoAwait(finished) == TRUE

\* await device.queue.onSubmittedWorkDone(): the code after it runs only once the
\* submitted work has finished
Resumes(finished) == finished

\* the steps of a readback that can throw before the mapping wait
ReadbackSteps == {"createStaging", "copy", "none"}

\* createBuffer(staging); copyBufferToBuffer(output, staging); submit
Readback(call, failAt) ==
  CASE failAt = "createStaging" -> Thrown(call)
    [] failAt = "copy" -> Thrown([call EXCEPT !.staging = "alive"])
    [] OTHER -> [call EXCEPT !.pc = "awaitMap", !.staging = "alive",
                             !.copied = (call.output = "alive")]

\* runHeightmapCompute after the completion wait: step 5 and the return
SynthReturn(call) ==
  [call EXCEPT !.pc = "returned", !.input = "destroyed", !.uniform = "destroyed",
               !.handed = TRUE]

\* the mapped staging buffer is copied out, unmapped and destroyed
StagingRead(call) ==
  [call EXCEPT !.mapped = TRUE, !.hostRead = (call.staging = "alive" /\ call.copied),
               !.staging = "destroyed"]

\* a variant of step 6 that forgets outputBuffer.destroy()
RefineReturnKeepOutput(call) ==
  Ended([StagingRead(call) EXCEPT !.input = "destroyed", !.uniform = "destroyed"],
        "done")

\* runRefineCompute after the mapping wait: read, step 6 and the return
RefineReturn(call) ==
  Ended([StagingRead(call) EXCEPT !.input = "destroyed", !.uniform = "destroyed",
                                  !.output = "destroyed"], "done")

\* handleGenerate3D after readbackOutputBuffer returned: setTerrain, outputBuffer.destroy()
GenerateFinish(call) ==
  Ended([StagingRead(call) EXCEPT !.output = "destroyed"], "done")

DriverInit ==
  /\ KernelIdle
  /\ ProbeIdle
  /\ kernelId \in Kernels
  /\ params = [width |-> 1, height |-> 1]
  /\ grid = <<0, 0>>
  /\ wgDone = {}
  /\ heightmapOut = {}
  /\ hasGpu \in BOOLEAN
  /\ cache = [device |-> 0, layout |-> 0, pipeline |-> 0]
  /\ calls = [c \in Calls |-> NoCall]
  /\ lost = {}
  /\ hist = [inits |-> "never", layouts |-> "never", pipelines |-> "never",
             overlapped |-> FALSE, initFailed |-> FALSE]

Begin(c) ==
  [NoCall EXCEPT !.startedFull = CacheFull(cache)]

Overlaps(c) == \E o \in Calls \ {c} : InFlight(o)

\* a call that finds the handles cached runs straight on to the submit
StartCached(c) ==
  /\ calls[c].pc = "idle"
  /\ \A p \in Calls : p < c => calls[p].pc # "idle"
  /\ Cardinality({o \in Calls : InFlight(o)}) < MaxOverlap
  /\ ~NeedsInit(cache)
  /\ \E failAt \in SetupSteps :
       calls' = [calls EXCEPT ![c] = Dispatched(Begin(c), cache, failAt)]
  /\ hist' = [hist EXCEPT !.overlapped = @ \/ Overlaps(c)]
  /\ UNCHANGED <<hasGpu, cache, lost>>
  /\ UNCHANGED <<dispatchVars, kernelVars, probe>>

\* the messages of the two errors initWebGPU throws; other failures carry the
\* error of the call that failed, which is not modelled ("")
NoGpuMessage == "WebGPU is not supported in this browser."
NoAdapterMessage == "Could not obtain a GPUAdapter."

\* a variant of the start of initWebGPU without the navigator.gpu check
InitWebGPUStartUnchecked(call, gpu) ==
  [call EXCEPT !.ranInit = TRUE, !.pc = "awaitAdapter"]

\* initWebGPU up to its first await: if (!navigator.gpu) throw ...; requestAdapter
InitWebGPUStart(call, gpu) ==
  IF gpu THEN [call EXCEPT !.ranInit = TRUE, !.pc = "awaitAdapter"]
         ELSE Thrown([call EXCEPT !.error = NoGpuMessage])

\* initWebGPU after requestAdapter: if (!adapter) throw ...; requestDevice
InitWebGPUAdapter(call, adapter) ==
  IF adapter THEN [call EXCEPT !.pc = "awaitDevice"]
             ELSE Thrown([call EXCEPT !.error = NoAdapterMessage])

\* a call that does not find them calls initWebGPU, which throws without navigator.gpu
StartInit(c) ==
  /\ calls[c].pc = "idle"
  /\ \A p \in Calls : p < c => calls[p].pc # "idle"
  /\ Cardinality({o \in Calls : InFlight(o)}) < MaxOverlap
  /\ NeedsInit(cache)
  /\ calls' = [calls EXCEPT ![c] = InitWebGPUStart(Begin(c), hasGpu)]
  /\ hist' = [hist EXCEPT !.overlapped = @ \/ Overlaps(c),
                          !.inits = Again(@),
                          !.initFailed = @ \/ ~hasGpu]
  /\ UNCHANGED <<hasGpu, cache, lost>>
  /\ UNCHANGED <<dispatchVars, kernelVars, probe>>

\* requestAdapter resolves: with null initWebGPU throws, else requestDevice is called
AdapterResolved(c) ==
  /\ calls[c].pc = "awaitAdapter"
  /\ \E adapter \in BOOLEAN :
       /\ calls' = [calls EXCEPT ![c] = InitWebGPUAdapter(@, adapter)]
       /\ hist' = [hist EXCEPT !.initFailed = @ \/ ~adapter]
  /\ UNCHANGED <<hasGpu, cache, lost>>
  /\ UNCHANGED <<dispatchVars, kernelVars, probe>>

\* requestDevice rejects
DeviceRejected(c) ==
  /\ calls[c].pc = "awaitDevice"
  /\ calls' = [calls EXCEPT ![c] = Thrown(@)]
  /\ hist' = [hist EXCEPT !.initFailed = TRUE]
  /\ UNCHANGED <<hasGpu, cache, lost>>
  /\ UNCHANGED <<dispatchVars, kernelVars, probe>>

\* requestDevice resolves with device c: the rest of the initialization block,
\* then on to the submit
DeviceAcquired(c) ==
  /\ calls[c].pc = "awaitDevice"
  /\ \E stage \in InitStages :
       LET after == CacheAfterInit(cache, c, stage)
           mine == calls[c]
       IN /\ cache' = after
          /\ hist' = [hist EXCEPT
                        !.layouts = Again(@),
                        !.pipelines = IF stage \in {"createComputePipeline", "none"}
                                      THEN Again(@) ELSE @,
                        !.initFailed = @ \/ stage # "none"]
          /\ IF stage # "none"
             THEN calls' = [calls EXCEPT ![c] = Thrown(mine)]
             ELSE \E failAt \in SetupSteps :
                    calls' = [calls EXCEPT ![c] = Dispatched(mine, after, failAt)]
  /\ UNCHANGED <<hasGpu, lost>>
  /\ UNCHANGED <<dispatchVars, kernelVars, probe>>

\* onSubmittedWorkDone rejects
WorkDoneRejected(c) ==
  /\ calls[c].pc = "awaitDone"
  /\ calls' = [calls EXCEPT ![c] = Thrown(@)]
  /\ UNCHANGED <<hasGpu, cache, lost, hist>>
  /\ UNCHANGED <<dispatchVars, kernelVars, probe>>

\* the code after the completion wait
WorkDone(c) ==
  /\ calls[c].pc = "awaitDone"
  /\ \E finished \in BOOLEAN :
       /\ Resumes(finished)
       /\ LET call == [calls[c] EXCEPT !.signal = finished]
          IN IF kernelId = "synthesis"
             THEN calls' = [calls EXCEPT ![c] = SynthReturn(call)]
             ELSE \E failAt \in ReadbackSteps :
                    calls' = [calls EXCEPT ![c] = Readback(call, failAt)]
  /\ UNCHANGED <<hasGpu, cache, lost, hist>>
  /\ UNCHANGED <<dispatchVars, kernelVars, probe>>

\* handleGenerate3D calls readbackOutputBuffer on the result it received
GenerateReadback(c) ==
  /\ calls[c].pc = "returned"
  /\ \E failAt \in ReadbackSteps :
       calls' = [calls EXCEPT ![c] = Readback(calls[c], failAt)]
  /\ UNCHANGED <<hasGpu, cache, lost, hist>>
  /\ UNCHANGED <<dispatchVars, kernelVars, probe>>

\* staging.mapAsync rejects
MapRejected(c) ==
  /\ calls[c].pc = "awaitMap"
  /\ calls' = [calls EXCEPT ![c] = Thrown(@)]
  /\ UNCHANGED <<hasGpu, cache, lost, hist>>
  /\ UNCHANGED <<dispatchVars, kernelVars, probe>>

\* staging.mapAsync resolves (it cannot on a lost device): the code after it
MapResolved(c) ==
  /\ calls[c].pc = "awaitMap"
  /\ calls[c].device \notin lost
  /\ calls' = [calls EXCEPT ![c] =
       IF kernelId = "synthesis" THEN GenerateFinish(calls[c])
                                 ELSE RefineReturn(calls[c])]
  /\ UNCHANGED <<hasGpu, cache, lost, hist>>
  /\ UNCHANGED <<dispatchVars, kernelVars, probe>>

\* device.lost resolves for a device still in use: the callback of initWebGPU
\* logs and warns
DeviceLost(d) ==
  /\ d = cache.device \/ \E c \in Calls : InFlight(c) /\ calls[c].device = d
  /\ d \notin lost
  /\ Cardinality(lost) < MaxLost
  /\ lost' = lost \cup {d}
  /\ UNCHANGED <<hasGpu, cache, calls, hist>>
  /\ UNCHANGED <<dispatchVars, kernelVars, probe>>

DriverNext ==
  \/ \E c \in Calls : StartCached(c)
  \/ \E c \in Calls : StartInit(c)
  \/ \E c \in Calls : AdapterResolved(c)
  \/ \E c \in Calls : DeviceRejected(c)
  \/ \E c \in Calls : DeviceAcquired(c)
  \/ \E c \in Calls : WorkDoneRejected(c)
  \/ \E c \in Calls : WorkDone(c)
  \/ \E c \in Calls : GenerateReadback(c)
  \/ \E c \in Calls : MapRejected(c)
  \/ \E c \in Calls : MapResolved(c)
  \/ \E c \in Calls : DeviceLost(c)

SpecDriver == DriverInit /\ [][DriverNext]_vars

Submitted(c) == calls[c].pc \in {"awaitDone", "returned", "awaitMap"}

Finished(c) == calls[c].pc \in {"done", "failed"}

\* C4: once a call to either run function is over, by return or by throw, the
\* uniform and input buffers it created are no longer alive
C4_BuffersReleased ==
  \A c \in Calls :
    calls[c].pc \in {"returned", "done", "failed"} =>
      calls[c].uniform # "alive" /\ calls[c].input # "alive"

\* C5: a device whose loss notification has fired is no longer the cached device,
\* so the next call cannot pass the cache check with it
C5_LostDeviceInvalidated ==
  cache.device \notin lost

ConsistentDispatch(c) ==
  /\ calls[c].device # 0
  /\ calls[c].layout = calls[c].device
  /\ calls[c].pipeline = calls[c].device

\* a call that throws straight after the cache check, with the cache populated
FailsInSetup(c) ==
  /\ calls[c].pc = "idle"
  /\ calls'[c].pc = "failed"
  /\ CacheFull(cache)

\* C7: as long as calls do not overlap, every dispatch uses a layout and a pipeline
\* of its own device, a cache that passes the check holds handles of one device,
\* and a call failing in buffer allocation or upload leaves a populated cache as
\* it was
C7_FailureLeavesCacheUsable ==
  /\ [](~hist.overlapped =>
          /\ \A c \in Calls : Submitted(c) => ConsistentDispatch(c)
          /\ ~NeedsInit(cache) =>
               cache.layout = cache.device /\ cache.pipeline = cache.device)
  /\ [][ \A c \in Calls : FailsInSetup(c) => cache' = cache ]_vars

C7_Witness ==
  /\ ~hist.overlapped
  /\ hist.initFailed
  /\ calls[1].pc = "failed"
  /\ calls[2].pc = "failed"
  /\ calls[2].uniform = "alive"
  /\ Submitted(3)
  /\ calls[3].startedFull

\* C7 as stated: no dispatch ever uses a missing layout or pipeline, or one of
\* another device
C7_NeverMismatched ==
  \A c \in Calls : Submitted(c) => ConsistentDispatch(c)

\* C8: the output buffer is copied to staging only after the completion signal of
\* the dispatch was received, and the host reads staging only after mapAsync
\* resolved on a staging buffer that holds the copy
C8_ReadAfterCompletion ==
  \A c \in Calls :
    /\ calls[c].copied => calls[c].signal
    /\ calls[c].staging # "none" => calls[c].signal
    /\ calls[c].hostRead => calls[c].mapped /\ calls[c].copied /\ calls[c].signal
    /\ calls[c].mapped => calls[c].hostRead

C8_Witness ==
  /\ calls[1].pc = "done"
  /\ calls[1].hostRead
  /\ calls[2].pc = "awaitMap"
  /\ calls[2].copied

\* C9: runHeightmapCompute returns with input and uniform destroyed and the output
\* alive and handed over; runRefineCompute returns with uniform, input, output and
\* staging destroyed, the output having been copied and read before
C9_BufferLifetimes ==
  \A c \in Calls :
    /\ calls[c].pc = "returned" =>
         /\ calls[c].input = "destroyed"
         /\ calls[c].uniform = "destroyed"
         /\ calls[c].output = "alive"
         /\ calls[c].staging = "none"
         /\ calls[c].handed
    /\ (kernelId = "refine" /\ calls[c].pc = "done") =>
         /\ calls[c].input = "destroyed"
         /\ calls[c].uniform = "destroyed"
         /\ calls[c].output = "destroyed"
         /\ calls[c].staging = "destroyed"
         /\ ~calls[c].handed
    /\ calls[c].output = "destroyed" => calls[c].copied /\ calls[c].hostRead
    /\ (kernelId = "refine" /\ calls[c].pc = "awaitMap") => calls[c].output = "alive"

C9_Witness ==
  /\ kernelId = "refine"
  /\ calls[1].pc = "done"
  /\ calls[1].output = "destroyed"
  /\ calls[2].pc = "awaitMap"

\* C10: once handleGenerate3D is over for a call in which runHeightmapCompute
\* returned a result, the returned output buffer is destroyed, and it is never
\* destroyed before the readback read it
C10_OutputReleasedByCaller ==
  \A c \in Calls :
    /\ (calls[c].handed /\ Finished(c)) => calls[c].output = "destroyed"
    /\ (calls[c].handed /\ calls[c].output = "destroyed") => calls[c].hostRead

(***************************************************************************)
(* SpecProbe: an argument is drawn, then the function named by probe.op is *)
(* applied to it once                                                      *)
(***************************************************************************)

\* the width x height pairs of the fields handed to the host functions
ProbeDims ==
  {d \in (1..MaxPixels) \X (1..MaxPixels) : d[1] * d[2] <= MaxPixels}

\* samples of the exported fields: below 0, 0.5, above 1, NaN
ExportCoarse == {0 - One \div 4, One \div 2, One + One \div 4, NaN}

\* samples of the one-pixel exported fields: -0.5 to 1.5 in steps of 0.001
ExportFine == (0 - One \div 2)..(One + One \div 2)

\* exported fields: every length from 0 to one more than width * height
ExportArgs ==
  UNION { UNION { { [data |-> data, width |-> d[1], height |-> d[2]] :
                      data \in [1..n -> ExportCoarse] } :
                  n \in 0..(d[1] * d[2] + 1) } : d \in ProbeDims }
  \cup { [data |-> <<v>>, width |-> 1, height |-> 1] : v \in ExportFine }

\* RGBA pixels of the canvases read by extractHeightmap
Quads == {<<0, 0, 0, 255>>, <<255, 255, 255, 255>>, <<128, 7, 200, 0>>, <<51, 51, 51, 255>>}

\* imageData.data of a canvas with the pixels px
Flatten(px) == [k \in 1..(4 * Len(px)) |-> px[((k - 1) \div 4) + 1][((k - 1) % 4) + 1]]

\* values handed to the contrast step: -0.2 to 1.5 in steps of 0.001
ContrastInputs == (0 - One \div 5)..(One + One \div 2)

ContrastArgs == { [shader |-> sh, v |-> v] : sh \in RefineShaders, v \in ContrastInputs }

\* offsets of the reads of a thread from its own pixel: the blur taps (-3..3), the
\* gradient taps (-1, 1), and displacements up to 3 * maxShift either way
SampleOffsets == ((0 - 4)..4) \cup {0 - 3 * maxShift, 3 * maxShift}

\* reads sampleClamped(px + dx, py + dy) of a thread at (px, py) of a w x h field
SampleArgs ==
  UNION { { [w |-> w, h |-> h, px |-> q[1], py |-> q[2], dx |-> o[1], dy |-> o[2]] :
              q \in (0..(w - 1)) \X (0..(h - 1)), o \in SampleOffsets \X SampleOffsets } :
          w \in 1..MaxKW, h \in 1..MaxKW }

\* ridge-noise values of a pixel: ridgedNoise lies in [0, 1.1)
RidgeVals == {0, 1, 250, 600, One, 1090}

\* a pixel painted v and painted brighter, w (by 0.005, five units of the fixed
\* point, or to full white), with the same ridge noise
MountainArgs ==
  UNION { { [v |-> v, w |-> w, ridges |-> r] : w \in {v + 5, One}, r \in RidgeVals } :
          v \in 0..(One - 5) }

\* a run of either kernel on a canvas
SizeArgs ==
  UNION { { [kernel |-> k, rgba |-> Flatten(px), width |-> d[1], height |-> d[2]] :
              px \in [1..(d[1] * d[2]) -> {<<51, 51, 51, 255>>}], k \in Kernels } :
          d \in ProbeDims }

ExtractArgs ==
  UNION { { [ctx |-> ctx, rgba |-> Flatten(px), width |-> d[1], height |-> d[2]] :
              px \in [1..(d[1] * d[2]) -> Quads], ctx \in BOOLEAN } : d \in ProbeDims }

Pending(op, args) ==
  { [op |-> op, arg |-> a, done |-> FALSE, out |-> [status |-> "none"]] : a \in args }

ProbeInit ==
  /\ DispatchIdle
  /\ KernelIdle
  /\ DriverIdle
  /\ probe \in Pending("export", ExportArgs) \cup Pending("extract", ExtractArgs)
                \cup Pending("contrast", ContrastArgs)
                \cup Pending("sample", SampleArgs)
                \cup Pending("mountain", MountainArgs)
                \cup Pending("sizes", SizeArgs)

Applied(out) ==
  /\ ~probe.done
  /\ probe' = [probe EXCEPT !.done = TRUE, !.out = out]
  /\ UNCHANGED <<dispatchVars, kernelVars, driverVars>>

\* handleDownload: downloadHeightmap16(heightData, width, height)
ApplyExport ==
  /\ probe.op = "export"
  /\ Applied(downloadHeightmap16(probe.arg.data, probe.arg.width, probe.arg.height))

\* extractHeightmap(hiddenCanvas)
ApplyExtract ==
  /\ probe.op = "extract"
  /\ Applied(extractHeightmap(probe.arg.ctx, probe.arg.rgba, probe.arg.width,
                              probe.arg.height))

\* main, step 4: the contrast step of the refine shader on one value
ApplyContrast ==
  /\ probe.op = "contrast"
  /\ Applied([status |-> "ok", value |-> contrastStep(probe.arg.shader, probe.arg.v)])

\* sampleClamped(px + dx, py + dy): the coordinate and the index it reads
ApplySample ==
  /\ probe.op = "sample"
  /\ LET f == [w |-> probe.arg.w, h |-> probe.arg.h]
         x == probe.arg.px + probe.arg.dx
         y == probe.arg.py + probe.arg.dy
     IN Applied([status |-> "ok", coord |-> sampleCoord(f, x, y),
                 index |-> sampleIndex(f, x, y)])

\* main of the synthesis kernel: mtnWeight * mtnHeight at the two painted values
ApplyMountain ==
  /\ probe.op = "mountain"
  /\ Applied([status |-> "ok", weight |-> mtnWeight(probe.arg.v),
              weightW |-> mtnWeight(probe.arg.w),
              term |-> mtnTerm(probe.arg.v, probe.arg.ridges),
              termW |-> mtnTerm(probe.arg.w, probe.arg.ridges)])

\* runHeightmapCompute + readbackOutputBuffer, or runRefineCompute: the buffers
ApplySizes ==
  /\ probe.op = "sizes"
  /\ Applied(bufferSizes(probe.arg.kernel, TRUE, probe.arg.rgba, probe.arg.width,
                         probe.arg.height))

ProbeNext ==
  \/ ApplyExport
  \/ ApplyExtract
  \/ ApplyContrast
  \/ ApplySample
  \/ ApplyMountain
  \/ ApplySizes

SpecProbe == ProbeInit /\ [][ProbeNext]_vars

(***************************************************************************)
(* SpecStages: the arrays of the host.  probe.out.heap is the sequence of  *)
(* array buffers allocated so far, fields the heap indices of the fields   *)
(* the stages returned, staging the index of the mapped range of a staging *)
(* buffer (0 when none is mapped)                                          *)
(***************************************************************************)

\* fields a behaviour produces before it stops
MaxStages == 2

\* new Float32Array(range) on the mapped range itself: a view of the same buffer
mappedView(heap, staging) == [heap |-> heap, at |-> staging]

\* new Float32Array(staging.getMappedRange().slice(0)): a view of a copy
mappedSlice(heap, staging) ==
  [heap |-> Append(heap, [data |-> heap[staging].data, detached |-> FALSE]),
   at |-> Len(heap) + 1]

\* staging.unmap(): the mapped range is detached
unmap(heap, staging) ==
  [heap EXCEPT ![staging] = [data |-> <<>>, detached |-> TRUE]]

\* TerrainMesh: the RGBA bytes of the height texture
heightTexture(data) ==
  [k \in 1..(4 * Len(data)) |->
     IF k % 4 = 0 THEN U8Max
     ELSE LET v == data[((k - 1) \div 4) + 1]
          IN IF v = NaN THEN 0 ELSE RoundDiv(v * U8Max, One) % 256]

StagesInit ==
  /\ DispatchIdle
  /\ KernelIdle
  /\ DriverIdle
  /\ probe \in { [op |-> "stages", arg |-> [canvas |-> <<q>>], done |-> FALSE,
                    out |-> [status |-> "ok", heap |-> <<>>, fields |-> <<>>,
                             staging |-> 0, last |-> <<>>]] : q \in Quads }

StageStep(arg, out) ==
  /\ probe.op = "stages"
  /\ probe' = [probe EXCEPT !.arg = arg, !.out = out]
  /\ UNCHANGED <<dispatchVars, kernelVars, driverVars>>

\* a brush stroke or engine.writeBack changes the hidden canvas
StagePaint ==
  \E q \in Quads :
    /\ probe.op = "stages"
    /\ q # probe.arg.canvas[1]
    /\ StageStep([canvas |-> <<q>>], probe.out)

\* extractHeightmap(hiddenCanvas) returns a new array
StageExtract ==
  /\ probe.op = "stages"
  /\ Len(probe.out.fields) < MaxStages
  /\ LET o == probe.out
         data == extractHeightmap(TRUE, Flatten(probe.arg.canvas), 1, 1).data
     IN StageStep(probe.arg,
                  [o EXCEPT !.heap = Append(o.heap, [data |-> data, detached |-> FALSE]),
                            !.fields = Append(o.fields, Len(o.heap) + 1)])

\* staging.mapAsync resolved, getMappedRange(): the range holds the kernel output
StageMap ==
  /\ probe.op = "stages"
  /\ probe.out.staging = 0
  /\ Len(probe.out.fields) < MaxStages
  /\ \E v \in {0, One \div 2} :
       LET o == probe.out
       IN StageStep(probe.arg,
                    [o EXCEPT !.heap = Append(o.heap, [data |-> <<v>>, detached |-> FALSE]),
                              !.staging = Len(o.heap) + 1])

\* the result array is made of the mapped range, then the staging buffer is unmapped
StageRead ==
  /\ probe.op = "stages"
  /\ probe.out.staging # 0
  /\ LET o == probe.out
         r == mappedSlice(o.heap, o.staging)
     IN StageStep(probe.arg,
                  [o EXCEPT !.heap = unmap(r.heap, o.staging),
                            !.fields = Append(o.fields, r.at),
                            !.staging = 0])

\* downloadHeightmap16(heightData, width, height) on a field
StageDownload ==
  /\ probe.op = "stages"
  /\ \E i \in 1..Len(probe.out.fields) :
       LET o == probe.out
           png == downloadHeightmap16(o.heap[o.fields[i]].data, 1, 1).bytes
       IN /\ o.last # png
          /\ StageStep(probe.arg, [o EXCEPT !.last = png])

\* TerrainMesh builds the height texture of a field
StagePreview ==
  /\ probe.op = "stages"
  /\ \E i \in 1..Len(probe.out.fields) :
       LET o == probe.out
           tex == heightTexture(o.heap[o.fields[i]].data)
       IN /\ o.last # tex
          /\ StageStep(probe.arg, [o EXCEPT !.last = tex])

StagesNext ==
  \/ StagePaint
  \/ StageExtract
  \/ StageMap
  \/ StageRead
  \/ StageDownload
  \/ StagePreview

SpecStages == StagesInit /\ [][StagesNext]_vars

(***************************************************************************)
(* SpecApp: the handlers of App and the buttons of Toolbar.  probe.out is  *)
(* the state of the component: the busy flags, terrain (0 for null, else   *)
(* the number of the generate call that set it), the await each handler is *)
(* suspended at, the props the toolbar was last rendered with, and counts  *)
(* of what the handlers did                                                *)
(***************************************************************************)

\* calls of each handler a behaviour makes before it stops
MaxClicks == 3

\* what an awaited call or engine.writeBack can throw: an Error with a message, or
\* a value that is not an Error
Failures ==
  {[isError |-> TRUE, message |-> NoGpuMessage],
   [isError |-> TRUE, message |-> NoAdapterMessage],
   [isError |-> FALSE, message |-> ""]}

\* alert(err instanceof Error ? err.message : fallback)
alertText(err, fallback) == IF err.isError THEN err.message ELSE fallback

\* the disabled attributes of the Refine, Generate and Download buttons
Toolbar(isRefining, isGenerating, hasTerrainData) ==
  [refine |-> isRefining, generate |-> isGenerating, download |-> ~hasTerrainData]

\* App renders the toolbar with its state
Render(app) ==
  [app EXCEPT !.disabled = Toolbar(app.isRefining, app.isGenerating, app.terrain # 0)]

\* the catch block of a handler: console.error, alert
Caught(app, err, fallback) ==
  [app EXCEPT !.alerts = @ + 1, !.lastAlert = alertText(err, fallback)]

\* a variant of the end of handleRefine that clears the flag at the end of the
\* try block only
handleRefineEndNoFinally(app, failed, err) ==
  IF failed THEN [Caught(app, err, "WebGPU refine error") EXCEPT !.refine = "idle"]
  ELSE [app EXCEPT !.isRefining = FALSE, !.refine = "idle"]

\* handleRefine from the point its try block is left: catch when it threw, then
\* finally
handleRefineEnd(app, failed, err) ==
  LET a == IF failed THEN Caught(app, err, "WebGPU refine error") ELSE app
  IN [a EXCEPT !.isRefining = FALSE, !.refine = "idle"]

\* handleGenerate3D from the point its try block is left
handleGenerate3DEnd(app, failed, err) ==
  LET a == IF failed THEN Caught(app, err, "WebGPU error") ELSE app
  IN [a EXCEPT !.isGenerating = FALSE, !.generate = "idle"]

\* a variant of handleDownload without the check of terrain
handleDownloadUnchecked(app) ==
  [app EXCEPT !.downloads = @ + 1, !.downloaded = app.terrain]

\* handleDownload: if (!terrain) return; downloadHeightmap16(terrain.heightData, ...)
handleDownload(app) ==
  IF app.terrain = 0 THEN app
  ELSE [app EXCEPT !.downloads = @ + 1, !.downloaded = app.terrain]

AppStart ==
  [isRefining |-> FALSE, isGenerating |-> FALSE, terrain |-> 0,
   refine |-> "idle", generate |-> "idle",
   disabled |-> Toolbar(FALSE, FALSE, FALSE),
   refineCalls |-> 0, generateCalls |-> 0, readbacks |-> 0,
   alerts |-> 0, lastAlert |-> "", downloadCalls |-> 0, downloads |-> 0,
   downloaded |-> 0]

AppInit ==
  /\ DispatchIdle
  /\ KernelIdle
  /\ DriverIdle
  /\ probe = [op |-> "app", arg |-> [n |-> 0], done |-> FALSE, out |-> AppStart]

AppStep(app) ==
  /\ probe.op = "app"
  /\ probe' = [probe EXCEPT !.out = Render(app)]
  /\ UNCHANGED <<dispatchVars, kernelVars, driverVars>>

\* the Refine button is clicked: handleRefine runs to await runRefineCompute(...)
RefineClick ==
  /\ probe.op = "app"
  /\ ~probe.out.disabled.refine
  /\ probe.out.refineCalls < MaxClicks
  /\ AppStep([probe.out EXCEPT !.isRefining = TRUE, !.refine = "compute",
                               !.refineCalls = @ + 1])

\* runRefineCompute resolves: engine.writeBack(refined), which may throw, then the
\* end of the handler
RefineResolved ==
  /\ probe.op = "app"
  /\ probe.out.refine = "compute"
  /\ \/ AppStep(handleRefineEnd(probe.out, FALSE, [isError |-> FALSE, message |-> ""]))
     \/ \E err \in Failures : AppStep(handleRefineEnd(probe.out, TRUE, err))

\* runRefineCompute rejects
RefineRejected ==
  /\ probe.op = "app"
  /\ probe.out.refine = "compute"
  /\ \E err \in Failures : AppStep(handleRefineEnd(probe.out, TRUE, err))

\* the Generate button is clicked: handleGenerate3D runs to
\* await runHeightmapCompute(...)
GenerateClick ==
  /\ probe.op = "app"
  /\ ~probe.out.disabled.generate
  /\ probe.out.generateCalls < MaxClicks
  /\ AppStep([probe.out EXCEPT !.isGenerating = TRUE, !.generate = "compute",
                               !.generateCalls = @ + 1])

\* runHeightmapCompute resolves: the handler goes on to await readbackOutputBuffer(...)
GenerateComputed ==
  /\ probe.op = "app"
  /\ probe.out.generate = "compute"
  /\ AppStep([probe.out EXCEPT !.generate = "readback"])

\* runHeightmapCompute or readbackOutputBuffer rejects
GenerateRejected ==
  /\ probe.op = "app"
  /\ probe.out.generate \in {"compute", "readback"}
  /\ \E err \in Failures : AppStep(handleGenerate3DEnd(probe.out, TRUE, err))

\* readbackOutputBuffer resolves: setTerrain({ heightData, mapSize }),
\* outputBuffer.destroy(), then the end of the handler
GenerateReadBack ==
  /\ probe.op = "app"
  /\ probe.out.generate = "readback"
  /\ AppStep(handleGenerate3DEnd(
       [probe.out EXCEPT !.terrain = probe.out.generateCalls, !.readbacks = @ + 1],
       FALSE, [isError |-> FALSE, message |-> ""]))

\* onDownload is called
DownloadClick ==
  /\ probe.op = "app"
  /\ probe.out.downloadCalls < MaxClicks
  /\ AppStep([handleDownload(probe.out) EXCEPT !.downloadCalls = @ + 1])

AppNext ==
  \/ RefineClick
  \/ RefineResolved
  \/ RefineRejected
  \/ GenerateClick
  \/ GenerateComputed
  \/ GenerateRejected
  \/ GenerateReadBack
  \/ DownloadClick

SpecApp == AppInit /\ [][AppNext]_vars

\* every awaited call of a handler settles
AppFairness ==
  /\ WF_vars(RefineResolved \/ RefineRejected)
  /\ WF_vars(GenerateComputed \/ GenerateRejected)
  /\ WF_vars(GenerateReadBack \/ GenerateRejected)

SpecAppFair == SpecApp /\ AppFairness

(***************************************************************************)
(* SpecCanvas: the mouse handlers of DrawingCanvas.  probe.arg is the last *)
(* event, probe.out the refs of the component (isDrawing, lastPos), the    *)
(* size of the attached viewport canvas and the paint request the handler  *)
(* of the last event made of the engine.  Positions on the hidden canvas   *)
(* are pairs in thousandths of a pixel; <<>> stands for null.              *)
(***************************************************************************)

\* side of the hidden canvas (4096 in the source)
CANVAS_SIZE == 2

\* the viewport canvas is at most MaxView pixels wide and high
MaxView == 3

NoRequest == [op |-> "none", from |-> <<>>, to |-> <<>>]

\* Canvas2DEngine.viewportToCanvas on a viewport of vw x vh pixels
viewportToCanvas(view, vx, vy) ==
  IF view = <<>> THEN <<>>
  ELSE LET vw == view[1]
           vh == view[2]
           \* scale * CANVAS_SIZE
           side == IF vw < vh THEN vw ELSE vh
           \* (vx - offsetX) * 2 and (vy - offsetY) * 2
           dx2 == 2 * vx - (vw - side)
           dy2 == 2 * vy - (vh - side)
           x == (dx2 * CANVAS_SIZE * One) \div (2 * side)
           y == (dy2 * CANVAS_SIZE * One) \div (2 * side)
       IN IF x < 0 \/ x >= CANVAS_SIZE * One \/ y < 0 \/ y >= CANVAS_SIZE * One
          THEN <<>>
          ELSE <<x, y>>

\* handlePointerDown
handlePointerDown(c, button, vx, vy) ==
  IF button # 0 THEN [c EXCEPT !.request = NoRequest]
  ELSE LET pos == viewportToCanvas(c.view, vx, vy)
       IN IF pos # <<>>
          THEN [c EXCEPT !.isDrawing = TRUE, !.lastPos = pos,
                         !.request = [op |-> "point", from |-> <<>>, to |-> pos]]
          ELSE [c EXCEPT !.isDrawing = TRUE, !.request = NoRequest]

\* what handlePointerMove does while the button is held
pointerDrag(c, vx, vy) ==
  LET pos == viewportToCanvas(c.view, vx, vy)
  IN IF pos = <<>> THEN [c EXCEPT !.request = NoRequest]
     ELSE IF c.lastPos # <<>>
     THEN [c EXCEPT !.lastPos = pos,
                    !.request = [op |-> "line", from |-> c.lastPos, to |-> pos]]
     ELSE [c EXCEPT !.lastPos = pos,
                    !.request = [op |-> "point", from |-> <<>>, to |-> pos]]

\* a variant of handlePointerMove without the check of isDrawing
handlePointerMoveUnchecked(c, vx, vy) == pointerDrag(c, vx, vy)

\* handlePointerMove
handlePointerMove(c, vx, vy) ==
  IF ~c.isDrawing THEN [c EXCEPT !.request = NoRequest]
  ELSE pointerDrag(c, vx, vy)

\* handlePointerUp, the handler of mouse-up and of mouse-leave
handlePointerUp(c) ==
  [c EXCEPT !.isDrawing = FALSE, !.lastPos = <<>>, !.request = NoRequest]

Views == (1..MaxView) \X (1..MaxView)

CanvasInit ==
  /\ DispatchIdle
  /\ KernelIdle
  /\ DriverIdle
  /\ \E view \in Views :
       probe = [op |-> "canvas",
                arg |-> [type |-> "resize", button |-> 0, vx |-> 0, vy |-> 0],
                done |-> FALSE,
                out |-> [view |-> view, isDrawing |-> FALSE, lastPos |-> <<>>,
                         request |-> NoRequest]]

CanvasStep(event, c) ==
  /\ probe.op = "canvas"
  /\ probe' = [probe EXCEPT !.arg = event, !.out = c]
  /\ UNCHANGED <<dispatchVars, kernelVars, driverVars>>

\* a mouse button goes down over the viewport canvas
MouseDown ==
  /\ probe.op = "canvas"
  /\ \E button \in {0, 2}, vx \in 0..(probe.out.view[1] - 1),
        vy \in 0..(probe.out.view[2] - 1) :
       CanvasStep([type |-> "down", button |-> button, vx |-> vx, vy |-> vy],
                  handlePointerDown(probe.out, button, vx, vy))

\* the mouse moves over the viewport canvas
MouseMove ==
  /\ probe.op = "canvas"
  /\ \E vx \in 0..(probe.out.view[1] - 1), vy \in 0..(probe.out.view[2] - 1) :
       CanvasStep([type |-> "move", button |-> 0, vx |-> vx, vy |-> vy],
                  handlePointerMove(probe.out, vx, vy))

\* a mouse button goes up over the viewport canvas
MouseUp ==
  /\ probe.op = "canvas"
  /\ \E button \in {0, 2} :
       CanvasStep([type |-> "up", button |-> button, vx |-> 0, vy |-> 0],
                  handlePointerUp(probe.out))

\* the mouse leaves the viewport canvas
MouseLeave ==
  /\ probe.op = "canvas"
  /\ CanvasStep([type |-> "leave", button |-> 0, vx |-> 0, vy |-> 0],
                handlePointerUp(probe.out))

\* the window is resized: canvas.width, canvas.height are set and the viewport is
\* attached again
Resize ==
  /\ probe.op = "canvas"
  /\ \E view \in Views :
       /\ view # probe.out.view
       /\ CanvasStep([type |-> "resize", button |-> 0, vx |-> 0, vy |-> 0],
                     [probe.out EXCEPT !.view = view, !.request = NoRequest])

CanvasNext ==
  \/ MouseDown
  \/ MouseMove
  \/ MouseUp
  \/ MouseLeave
  \/ Resize

SpecCanvas == CanvasInit /\ [][CanvasNext]_vars

Exported == probe.op = "export" /\ probe.done

\* C11: an exported field whose length is not width * height is rejected with a
\* precondition error instead of being encoded
C11_MalformedFieldRejected ==
  (Exported /\ Len(probe.arg.data) # probe.arg.width * probe.arg.height) =>
    probe.out.status = "PreconditionError"

\* the 16-bit sample decoded from the two bytes of pixel i (0-based), most
\* significant byte first
DecodedAt(bytes, i) == bytes[2 * i + 1] * 256 + bytes[2 * i + 2]

\* the samples of the exported field that are numbers and lie inside the image
ExportedPixels ==
  {i \in 0..(probe.arg.width * probe.arg.height - 1) :
     i < Len(probe.arg.data) /\ probe.arg.data[i + 1] # NaN}

\* C14: the buffer holds two bytes per pixel; the pair of pixel i, most significant
\* byte first, is the integer nearest to clamp(v, 0, 1) * 65535 (halves rounded
\* up); 0.5 gives 0x80 0x00, a value below 0 gives 0x00 0x00, a value above 1
\* gives 0xFF 0xFF
C14_ExportQuantizes ==
  Exported =>
    /\ Len(probe.out.bytes) = 2 * probe.arg.width * probe.arg.height
    /\ \A i \in ExportedPixels :
         LET v == probe.arg.data[i + 1]
             c == Clamp(v, 0, One)
             q == DecodedAt(probe.out.bytes, i)
         IN /\ probe.out.bytes[2 * i + 1] \in 0..255
            /\ probe.out.bytes[2 * i + 2] \in 0..255
            /\ 2 * q * One <= 2 * c * U16Max + One
            /\ 2 * c * U16Max + One < 2 * (q + 1) * One
            /\ v = One \div 2 =>
                 probe.out.bytes[2 * i + 1] = 128 /\ probe.out.bytes[2 * i + 2] = 0
            /\ v < 0 => probe.out.bytes[2 * i + 1] = 0 /\ probe.out.bytes[2 * i + 2] = 0
            /\ v > One =>
                 probe.out.bytes[2 * i + 1] = 255 /\ probe.out.bytes[2 * i + 2] = 255

\* Scenario C: a 2 x 2 field of all 0.5 has been exported
C14_Witness ==
  /\ Exported
  /\ probe.arg.width = 2
  /\ probe.arg.height = 2
  /\ probe.arg.data = <<One \div 2, One \div 2, One \div 2, One \div 2>>
  /\ probe.out.bytes = <<128, 0, 128, 0, 128, 0, 128, 0>>

\* C15: for a sample v in [0, 1], the exported 16-bit sample divided by 65535 is
\* within 1/65535 of v
C15_RoundTripBound ==
  Exported =>
    \A i \in ExportedPixels :
      LET v == probe.arg.data[i + 1]
          q == DecodedAt(probe.out.bytes, i)
      IN (0 <= v /\ v <= One) => Abs(q * One - v * U16Max) <= One

\* a sample strictly between two 16-bit levels has been exported
C15_Witness ==
  /\ Exported
  /\ Len(probe.arg.data) = 1
  /\ probe.arg.data[1] = One \div 3
  /\ DecodedAt(probe.out.bytes, 0) * One # probe.arg.data[1] * U16Max

Extracted == probe.op = "extract" /\ probe.done /\ probe.arg.ctx

\* C16: extractHeightmap returns width * height samples, sample i being the red
\* byte of pixel i over 255 (to the nearest thousandth), so inside [0, 1]
C16_ExtractRedChannel ==
  Extracted =>
    /\ probe.out.status = "ok"
    /\ Len(probe.out.data) = probe.arg.width * probe.arg.height
    /\ \A i \in 1..(probe.arg.width * probe.arg.height) :
         LET red == probe.arg.rgba[4 * (i - 1) + 1]
             v == probe.out.data[i]
         IN /\ 0 <= v /\ v <= One
            /\ 2 * Abs(v * U8Max - red * One) <= U8Max

\* a canvas whose pixels differ in green, blue and alpha from their red has been read
C16_Witness ==
  /\ Extracted
  /\ probe.arg.width = 2
  /\ probe.arg.height = 2
  /\ probe.arg.rgba[1] = 128
  /\ probe.arg.rgba[4] = 0
  /\ probe.arg.rgba[5] = 51
  /\ probe.out.data[1] = 502
  /\ probe.out.data[2] = 200

NoBuffers(c) ==
  /\ calls[c].uniform = "none"
  /\ calls[c].input = "none"
  /\ calls[c].output = "none"
  /\ calls[c].staging = "none"

\* C12: a call in which initWebGPU found no navigator.gpu or no adapter has failed
\* with that error's message, has created no buffer and submitted nothing, and
\* stays failed: it makes no second attempt.  Without navigator.gpu every call
\* ends that way and nothing is ever cached.
C12_NoAcceleratorFails ==
  /\ [](\A c \in Calls :
          /\ calls[c].error # "" =>
               /\ calls[c].error \in {NoGpuMessage, NoAdapterMessage}
               /\ calls[c].pc = "failed"
               /\ NoBuffers(c)
               /\ ~calls[c].signal /\ ~calls[c].copied /\ ~calls[c].handed
          /\ calls[c].error = NoGpuMessage <=> (~hasGpu /\ calls[c].pc # "idle")
          /\ ~hasGpu => cache = [device |-> 0, layout |-> 0, pipeline |-> 0])
  /\ [][\A c \in Calls : calls[c].pc = "failed" => calls'[c] = calls[c]]_vars

\* a call failed for want of an adapter and the call after it went through
C12_Witness ==
  /\ calls[1].pc = "failed"
  /\ calls[1].error = NoAdapterMessage
  /\ NoBuffers(1)
  /\ Submitted(2)
  /\ calls[2].ranInit

Contrasted == probe.op = "contrast" /\ probe.done

\* C13: the contrast step of the refine shader returns every v >= 0.12 unchanged,
\* returns 0 for every v <= 0.03, and a value between 0 and v for v in between
C13_CoastlinePassThrough ==
  Contrasted =>
    LET v == probe.arg.v
        out == probe.out.value
    IN /\ v >= coastHigh => out = v
       /\ v <= coastLow => out = 0
       /\ (coastLow < v /\ v < coastHigh) => (0 <= out /\ out <= v)

C20_PerturbedIsBlurred ==
  refineRes.ran =>
    refineRes.perturbed =
      gaussianBlur(kfield, (refineRes.idx % kfield.w) + refineRes.shift[1],
                           (refineRes.idx \div kfield.w) + refineRes.shift[2])

Sampled == probe.op = "sample" /\ probe.done

\* the coordinate of 0..n-1 nearest to v
Nearest(v, n) == IF v < 0 THEN 0 ELSE IF v > n - 1 THEN n - 1 ELSE v

\* C19: a read of the input field at any requested coordinate, negative or beyond
\* the width or height included, reads the sample at the nearest coordinate of the
\* field: the index lies in 0..width*height-1, in the row and the column nearest to
\* the requested ones, never on the opposite edge or in another row
C19_BorderClamped ==
  Sampled =>
    LET w == probe.arg.w
        h == probe.arg.h
        x == probe.arg.px + probe.arg.dx
        y == probe.arg.py + probe.arg.dy
        idx == probe.out.index
    IN /\ idx \in 0..(w * h - 1)
       /\ idx % w = Nearest(x, w)
       /\ idx \div w = Nearest(y, h)
       /\ probe.out.coord = <<Nearest(x, w), Nearest(y, h)>>

\* a read left of the field and below it, on a field of several rows and columns
C19_Witness ==
  /\ Sampled
  /\ probe.arg.w > 1
  /\ probe.arg.h > 1
  /\ probe.arg.px + probe.arg.dx < 0
  /\ probe.arg.py + probe.arg.dy >= probe.arg.h
  /\ probe.out.index = (probe.arg.h - 1) * probe.arg.w

\* C17: whatever the order of the threads of a pass, each thread writes only the
\* index of its own pixel, once, and the value it writes is one the kernel computes
\* for that pixel from the input field and the uniforms alone, which the pass never
\* changes; so the field a pass leaves does not depend on the interleaving
C17_ThreadsIndependent ==
  /\ [](\A k \in 1..Len(heightmapOut) :
          LET wr == heightmapOut[k]
          IN /\ wr.idx = wr.gy * params.width + wr.gx
             /\ wr \in ThreadWrites(kernelId, kfield, wr.gx, wr.gy)
             /\ \A j \in 1..Len(heightmapOut) : heightmapOut[j].idx = wr.idx => j = k)
  /\ [][kfield' = kfield /\ params' = params]_vars

\* a refinement pass over three differing samples is complete; the thread of the
\* last pixel ran first and stored a value other than its input sample, then the
\* thread of the first pixel, then the one between them
C17_Witness ==
  /\ kernelId = "refine"
  /\ kfield.w = 3
  /\ Len(heightmapOut) = 3
  /\ heightmapOut[1].idx = 2
  /\ heightmapOut[2].idx = 0
  /\ heightmapOut[3].idx = 1
  /\ heightmapOut[1].val # kfield.cols[3]
  /\ kfield.cols[1] # kfield.cols[2]
  /\ kfield.cols[2] # kfield.cols[3]

\* C21: where the gradient magnitude of the input at the pixel is at most 0.02 the
\* step-2 result is the blurred value itself, whatever the perturbed sample; for
\* larger gradients it moves from the blurred value toward the perturbed sample by
\* at most 0.7 of their difference
C21_FlatStaysBlurred ==
  refineRes.ran =>
    /\ refineRes.edge = gradientMagnitude(kfield, refineRes.idx % kfield.w,
                                          refineRes.idx \div kfield.w)
    /\ refineRes.edge <= 20 => refineRes.smoothed = refineRes.blurred
    /\ 10 * Abs(refineRes.smoothed - refineRes.blurred)
         <= 7 * Abs(refineRes.perturbed - refineRes.blurred) + 10
    /\ (refineRes.perturbed >= refineRes.blurred) =>
         (refineRes.smoothed >= refineRes.blurred - 1)
    /\ (refineRes.perturbed <= refineRes.blurred) =>
         (refineRes.smoothed <= refineRes.blurred)

\* a thread ran on a pixel with a gradient above 0 and at most 0.02 whose perturbed
\* sample differs from the blur
C21_Witness ==
  /\ refineRes.ran
  /\ refineRes.edge > 0
  /\ refineRes.edge <= 20
  /\ refineRes.perturbed # refineRes.blurred
  /\ refineRes.smoothed = refineRes.blurred

\* squared distance of the thread's pixel from the painted pixel
SceneDist2 ==
  (probe.arg.px - probe.arg.sx) * (probe.arg.px - probe.arg.sx)
    + (probe.arg.py - probe.arg.sy) * (probe.arg.py - probe.arg.sy)

\* C22: on a 64x64 field that is 0 but for one pixel at 1.0, every pixel farther
\* than 3 pixels from the painted one gets a refinement output below 0.03, snapped
\* to 0, whatever the displacement noise
C22_ScenarioB ==
  (probe.op = "scene" /\ probe.done /\ SceneDist2 > 9) =>
    /\ probe.out.val # NaN
    /\ probe.out.val < coastLow
    /\ probe.out.val = 0

\* a thread ran farther than 3 pixels from the painted pixel where the blur still
\* reaches the painted pixel, and its output was snapped to 0
C22_Witness ==
  /\ probe.op = "scene"
  /\ probe.done
  /\ SceneDist2 > 9
  /\ probe.out.blurred > 0
  /\ probe.out.val = 0

\* C23: with the ridge noise fixed and not negative, the mountain term
\* mtnWeight(v) * ridges * v does not decrease when the painted value v rises
\* within [0.5, 1.0]; mtnWeight is 0 up to 0.4 and 1 from 0.8
C23_MountainMonotone ==
  (probe.op = "mountain" /\ probe.done) =>
    /\ (probe.arg.v >= One \div 2) => probe.out.term <= probe.out.termW
    /\ probe.out.weight <= probe.out.weightW
    /\ (probe.arg.v <= 400) => probe.out.weight = 0
    /\ (probe.arg.v >= 800) => probe.out.weight = One
    /\ probe.out.term = (probe.out.weight * ((probe.arg.ridges * probe.arg.v) \div One))
                          \div One

\* the term was taken at a painted value inside the ramp and at a brighter one, with
\* ridge noise above 0, and it rose
C23_Witness ==
  /\ probe.op = "mountain"
  /\ probe.done
  /\ probe.arg.v >= One \div 2
  /\ probe.arg.v < 800
  /\ probe.arg.ridges > 0
  /\ probe.out.term < probe.out.termW

\* C24: in a run of either kernel on a width x height canvas the input, output and
\* staging buffers are width * height * 4 bytes, the uniform buffer is 16 bytes and
\* holds width and height, and the array read back has width * height samples
C24_BufferSizes ==
  (probe.op = "sizes" /\ probe.done) =>
    LET n == probe.arg.width * probe.arg.height
    IN /\ probe.out.input = n * 4
       /\ probe.out.output = n * 4
       /\ probe.out.staging = n * 4
       /\ probe.out.uniform = 16
       /\ probe.out.uniformData = <<probe.arg.width, probe.arg.height>>
       /\ probe.out.result = n

\* the synthesis kernel and its readback ran on a canvas that is not square
C24_Witness ==
  /\ probe.op = "sizes"
  /\ probe.done
  /\ probe.arg.kernel = "synthesis"
  /\ probe.arg.width = 3
  /\ probe.arg.height = 1
  /\ probe.out.staging = 12
  /\ probe.out.result = 3

\* C25: every field a stage returns is a newly allocated array, distinct from every
\* earlier field and from the mapped range of the staging buffer, and no later
\* step (another stage, unmapping, a repaint of the canvas, the export, the
\* preview texture) changes the array of a field
C25_FieldsNeverMutated ==
  /\ [](probe.op = "stages" =>
          LET o == probe.out
          IN \A i \in 1..Len(o.fields) :
               /\ ~o.heap[o.fields[i]].detached
               /\ o.fields[i] # o.staging
               /\ \A j \in 1..Len(o.fields) : o.fields[j] = o.fields[i] => j = i)
  /\ [][\A i \in 1..Len(probe.out.fields) :
           /\ probe'.out.fields[i] = probe.out.fields[i]
           /\ probe'.out.heap[probe.out.fields[i]] = probe.out.heap[probe.out.fields[i]]]_vars

\* a field was extracted and one read back while the canvas was repainted, the
\* staging buffer is unmapped, and the field read back was exported
C25_Witness ==
  /\ probe.op = "stages"
  /\ Len(probe.out.fields) = 3
  /\ probe.out.staging = 0
  /\ \E k \in 1..Len(probe.out.heap) : probe.out.heap[k].detached
  /\ probe.out.heap[probe.out.fields[1]].data # probe.out.heap[probe.out.fields[3]].data
  /\ probe.out.last = exportBytes(exportSample(One \div 2))

\* C27: a call that found the cache incomplete acquires a device of its own and
\* compiles on it, overwriting what is cached, and then creates its buffers and bind
\* group, sets its pipeline, submits and reads back on that one device with the
\* layout and pipeline it compiled itself, whatever other calls overlap with it;
\* while no initialization has failed the cached handles belong to one device
C27_OverlappingCallsConsistent ==
  /\ \A c \in Calls :
       (calls[c].ranInit /\ Submitted(c)) =>
         /\ calls[c].device = c
         /\ calls[c].layout = c
         /\ calls[c].pipeline = c
  /\ (~hist.initFailed /\ cache.device # 0) =>
       (cache.layout = cache.device /\ cache.pipeline = cache.device)

\* two calls overlapped on the empty cache and both acquired a device; the first
\* call was the later to compile, so its handles are the cached ones; both have
\* submitted
C27_Witness ==
  /\ calls[1].ranInit /\ Submitted(1)
  /\ calls[2].ranInit /\ Submitted(2)
  /\ calls[1].device = 1
  /\ calls[2].device = 2
  /\ cache = [device |-> 1, layout |-> 1, pipeline |-> 1]
  /\ ~hist.initFailed

\* the samples a refinement thread can store when every value before the
\* mountain boost is as recorded in res
RefineStores(res) ==
  UNION { StoreClamped(coastlineContrast(b)) :
          b \in sharpenMountains(res.smoothed, res.blurred) }

\* the samples a synthesis thread can store for the height recorded in res
SynthStores(res) ==
  StoreClamped(PowLookup(Pow13Table, Clamp(res.height, 0, One)))

\* C26: the value a thread of either kernel writes is determined by the pixel, the
\* dimensions and the input field: with every value computed from them as
\* recorded, it is the only sample the kernel can store
C26_Deterministic ==
  /\ synthRes.ran => SynthStores(synthRes) = {synthRes.out}
  /\ refineRes.ran => RefineStores(refineRes) = {refineRes.out}

\* C28: a handler sets its busy flag before it starts the kernel call and the flag
\* stays set while the call is awaited; when the call has finished, on success or
\* on failure, the flag is cleared; a failure is reported by one alert and starts
\* no other call; the Refine and Generate buttons are disabled while their flag
\* is set, so each is enabled again after every call that completes
C28_BusyFlagsReset ==
  /\ [](probe.op = "app" =>
         /\ probe.out.refine # "idle" => probe.out.isRefining
         /\ probe.out.generate # "idle" => probe.out.isGenerating
         /\ probe.out.refine = "idle" => ~probe.out.isRefining
         /\ probe.out.generate = "idle" => ~probe.out.isGenerating
         /\ probe.out.disabled.refine = probe.out.isRefining
         /\ probe.out.disabled.generate = probe.out.isGenerating)
  /\ [][probe'.out.alerts # probe.out.alerts =>
          /\ probe'.out.alerts = probe.out.alerts + 1
          /\ probe'.out.refineCalls = probe.out.refineCalls
          /\ probe'.out.generateCalls = probe.out.generateCalls
          /\ \/ probe.out.refine # "idle" /\ probe'.out.refine = "idle"
             \/ probe.out.generate # "idle" /\ probe'.out.generate = "idle"]_vars
  /\ [][(probe.out.refine # "idle" /\ probe'.out.refine = "idle"
           /\ probe'.out.alerts = probe.out.alerts) =>
          probe'.out.lastAlert = probe.out.lastAlert]_vars
  /\ (probe.out.disabled.refine ~> ~probe.out.disabled.refine)
  /\ (probe.out.disabled.generate ~> ~probe.out.disabled.generate)

\* a refine call and a generate call have both failed and been reported, and both
\* buttons are enabled again
C28_Witness ==
  /\ probe.op = "app"
  /\ probe.out.alerts >= 2
  /\ probe.out.refineCalls >= 1
  /\ probe.out.generateCalls >= 1
  /\ probe.out.lastAlert = "WebGPU refine error"
  /\ ~probe.out.disabled.refine
  /\ ~probe.out.disabled.generate

\* C29: terrain is non-null only after a generate call completed its readback;
\* only a completed readback changes it, so a failed generate leaves it as it was;
\* handleDownload does nothing while it is null; the download button is enabled
\* exactly when it is non-null
C29_TerrainState ==
  /\ [](probe.op = "app" =>
         /\ probe.out.terrain # 0 =>
              (probe.out.readbacks >= 1 /\ probe.out.terrain \in 1..probe.out.generateCalls)
         /\ probe.out.disabled.download = (probe.out.terrain = 0))
  /\ [][/\ probe'.out.alerts # probe.out.alerts => probe'.out.terrain = probe.out.terrain
        /\ probe'.out.terrain # probe.out.terrain =>
             /\ probe.out.generate = "readback"
             /\ probe'.out.readbacks = probe.out.readbacks + 1
        /\ probe.out.terrain = 0 =>
             /\ probe'.out.downloads = probe.out.downloads
             /\ probe'.out.downloaded = probe.out.downloaded]_vars

\* the first generate call set the terrain, the second failed and left it; the
\* download handler was called once before there was a terrain and once after
C29_Witness ==
  /\ probe.op = "app"
  /\ probe.out.terrain = 1
  /\ probe.out.generateCalls = 2
  /\ probe.out.generate = "idle"
  /\ probe.out.lastAlert = "WebGPU error"
  /\ probe.out.downloadCalls = 2
  /\ probe.out.downloads = 1
  /\ probe.out.downloaded = 1
  /\ ~probe.out.disabled.download

\* the cursor at viewport pixel (vx, vy) is over the image of the hidden canvas,
\* the centred square whose side is the smaller side of the viewport
OverCanvas(view, vx, vy) ==
  LET side == IF view[1] < view[2] THEN view[1] ELSE view[2]
  IN /\ view[1] - side <= 2 * vx /\ 2 * vx < view[1] + side
     /\ view[2] - side <= 2 * vy /\ 2 * vy < view[2] + side

\* C30: the engine is asked to paint only while isDrawing is true, which it is from
\* a left-button mouse-down to the next mouse-up or mouse-leave; a mouse-move
\* while drawing paints a line from the last painted position when there is one
\* and a point otherwise, and paints nothing when the cursor is outside the
\* canvas; mouse-up and mouse-leave clear isDrawing and the last position
C30_PaintOnlyWhileDrawing ==
  [][LET e == probe'.arg
         o == probe.out
         n == probe'.out
     IN /\ n.request.op # "none" =>
             /\ n.isDrawing
             /\ e.type \in {"down", "move"}
             /\ n.lastPos = n.request.to
        /\ n.isDrawing = (\/ e.type = "down" /\ e.button = 0
                          \/ o.isDrawing /\ e.type \notin {"up", "leave"})
        /\ (e.type = "move" /\ ~o.isDrawing) => (n.request.op = "none" /\ n.lastPos = <<>>)
        /\ (e.type = "move" /\ o.isDrawing) =>
             IF ~OverCanvas(o.view, e.vx, e.vy)
             THEN n.request.op = "none" /\ n.lastPos = o.lastPos
             ELSE /\ n.request.op = (IF o.lastPos # <<>> THEN "line" ELSE "point")
                  /\ n.request.from = o.lastPos
                  /\ n.request.to # <<>>
        /\ e.type \in {"up", "leave"} =>
             (~n.isDrawing /\ n.lastPos = <<>> /\ n.request.op = "none")
        /\ ~n.isDrawing => n.lastPos = <<>>]_vars

\* a mouse-move painted a line between two positions of a viewport that is wider
\* than it is high
C30_Witness ==
  /\ probe.op = "canvas"
  /\ probe.arg.type = "move"
  /\ probe.out.view[1] > probe.out.view[2]
  /\ probe.out.request.op = "line"
  /\ probe.out.request.from # probe.out.request.to
  /\ probe.out.isDrawing

====
